---------------------------- MODULE Spec2Model ----------------------------
(***************************************************************************)
(* Model of landslide's macros (src/src/landslide/macro.py).               *)
(*                                                                         *)
(* A slide's content is a sequence of characters (one-character strings).  *)
(* Each macro's process(content, source) is an operator that returns the   *)
(* record [content, classes, raised, log]; raised names the exception that *)
(* leaves process ("none" when it returns).  The regular expressions of    *)
(* the source are data (sequences of items) run by a backtracking matcher  *)
(* with Python's priorities: leftmost start, lazy quantifiers shortest     *)
(* first, greedy quantifiers longest first.                                *)
(***************************************************************************)
EXTENDS Integers, Sequences, FiniteSets, TLC

VARIABLES content, source, embed, fs, calls

vars == <<content, source, embed, fs, calls>>

(***************************************************************************)
(* Bounds of the model.                                                    *)
(***************************************************************************)
MaxPieces == 4
MaxBlocks == 2
MaxImages == 2
MaxTags == 3
MaxPasses == 2

(***************************************************************************)
(* Strings.                                                                *)
(***************************************************************************)
None == <<"None">>

Min(a, b) == IF a < b THEN a ELSE b

Slice(s, a, b) == IF b < a THEN <<>> ELSE SubSeq(s, a, b)

StartsAt(s, pos, lit) ==
    /\ pos + Len(lit) - 1 <= Len(s)
    /\ \A i \in 1..Len(lit) : s[pos + i - 1] = lit[i]

StartsWith(s, lit) == StartsAt(s, 1, lit)

Least(S) == CHOOSE x \in S : \A y \in S : x <= y

\* str.find(old): the first index at which old occurs in s, 0 when it does not.
FirstOf(at) == IF at = {} THEN 0 ELSE Least(at)

Find(s, old) == FirstOf({i \in 1..(Len(s) - Len(old) + 1) : StartsAt(s, i, old)})

\* str.replace(old, new, 1): the first occurrence of old becomes new.
ReplaceAt(s, i, n, new) ==
    IF i = 0 THEN s ELSE Slice(s, 1, i - 1) \o new \o Slice(s, i + n, Len(s))

Replace1(s, old, new) == ReplaceAt(s, Find(s, old), Len(old), new)

\* str.split(sep) for a one-character separator: '' gives [''].
RECURSIVE SplitFrom(_, _, _, _)
SplitFrom(s, sep, i, cur) ==
    IF i > Len(s) THEN <<cur>>
    ELSE IF s[i] = sep THEN <<cur>> \o SplitFrom(s, sep, i + 1, <<>>)
    ELSE SplitFrom(s, sep, i + 1, Append(cur, s[i]))

Split(s, sep) == SplitFrom(s, sep, 1, <<>>)

(***************************************************************************)
(* Character classes of the re module.                                     *)
(***************************************************************************)
Letters == {"a","b","c","d","e","f","g","h","i","j","k","l","m","n","o","p","q","r","s","t","u","v","w","x","y","z"}

Digits == {"0","1","2","3","4","5","6","7","8","9"}

InClass(c, cls) ==
    CASE cls = "any"   -> TRUE                          \* . under re.DOTALL
      [] cls = "dot"   -> c # "\n"                      \* . without re.DOTALL
      [] cls = "space" -> c \in {" ", "\n", "\t"}       \* \s
      [] cls = "word"  -> c \in Letters \cup Digits \cup {"_"}   \* \w
      [] OTHER         -> c = cls                       \* a literal character

(***************************************************************************)
(* Regular expressions: a sequence of items, matched left to right.        *)
(***************************************************************************)
Unbounded == -1

Item(t, s, c, min, max, lazy, g) ==
    [t |-> t, s |-> s, c |-> c, min |-> min, max |-> max, lazy |-> lazy, g |-> g]

Lit(s)         == Item("lit", s, "", 0, 0, FALSE, 0)       \* literal text
Rep(c, mn, mx) == Item("rep", <<>>, c, mn, mx, FALSE, 0)   \* c{mn,mx}, greedy
RepLazy(c, mn) == Item("rep", <<>>, c, mn, Unbounded, TRUE, 0)   \* c{mn,}?
OptGroup(s, g) == Item("opt", s, "", 0, 1, FALSE, g)       \* (s)? as group g
Open(g)        == Item("open", <<>>, "", 0, 0, FALSE, g)   \* ( of group g
Close(g)       == Item("close", <<>>, "", 0, 0, FALSE, g)  \* ) of group g
NotAhead(s)    == Item("nla", s, "", 0, 0, FALSE, 0)       \* (?!s)

NoMatch == [ok |-> FALSE, start |-> 0, end |-> 0, caps |-> <<>>]

Groups(re) == {re[k].g : k \in 1..Len(re)} \ {0}

\* The number of characters from pos on that are in cls, at most mx.
Limit(s, pos, mx) ==
    IF mx = Unbounded THEN Len(s) - pos + 1 ELSE Min(mx, Len(s) - pos + 1)

FirstStop(stops, lim) == IF stops = {} THEN lim ELSE Least(stops)

Run(s, pos, cls, mx) ==
    FirstStop({j \in 0..(Limit(s, pos, mx) - 1) : ~InClass(s[pos + j], cls)},
              Limit(s, pos, mx))

\* Whether the first character that items k.. need can be the one at pos: a
\* necessary condition for a match of items k.. at pos.
RECURSIVE CanStart(_, _, _, _)
CanStart(re, s, k, pos) ==
    IF k > Len(re) THEN TRUE
    ELSE CASE re[k].t = "lit" -> StartsAt(s, pos, re[k].s)
           [] re[k].t = "opt" -> StartsAt(s, pos, re[k].s) \/ CanStart(re, s, k + 1, pos)
           [] re[k].t = "rep" -> \/ pos <= Len(s) /\ InClass(s[pos], re[k].c)
                                 \/ re[k].min = 0 /\ CanStart(re, s, k + 1, pos)
           [] OTHER -> CanStart(re, s, k + 1, pos)

Greatest(S) == CHOOSE x \in S : \A y \in S : y <= x

\* The match of items k.. of re at position pos that the backtracking search
\* of the re module finds first: a lazy quantifier takes the fewest characters
\* with which the rest matches, a greedy one the most (TryRep tries the counts
\* in that order, OrElse goes on to the next one).  A group's capture is
\* <<first, last + 1>>.
RECURSIVE MatchFrom(_, _, _, _, _), TryRep(_, _, _, _, _, _), TryCount(_, _, _, _, _, _, _),
          OrElse(_, _, _, _, _, _, _)
MatchFrom(re, s, k, pos, caps) ==
    IF k > Len(re) THEN [ok |-> TRUE, start |-> 0, end |-> pos, caps |-> caps]
    ELSE
      CASE re[k].t = "lit" ->
             IF StartsAt(s, pos, re[k].s)
             THEN MatchFrom(re, s, k + 1, pos + Len(re[k].s), caps)
             ELSE NoMatch
        [] re[k].t = "open" ->
             MatchFrom(re, s, k + 1, pos, [caps EXCEPT ![re[k].g] = <<pos, pos>>])
        [] re[k].t = "close" ->
             MatchFrom(re, s, k + 1, pos, [caps EXCEPT ![re[k].g] = <<caps[re[k].g][1], pos>>])
        [] re[k].t = "nla" ->
             IF StartsAt(s, pos, re[k].s) THEN NoMatch
             ELSE MatchFrom(re, s, k + 1, pos, caps)
        [] re[k].t = "opt" ->
             OrElse(IF StartsAt(s, pos, re[k].s)
                    THEN MatchFrom(re, s, k + 1, pos + Len(re[k].s),
                                   [caps EXCEPT ![re[k].g] = <<pos, pos + Len(re[k].s)>>])
                    ELSE NoMatch,
                    re, s, k, pos, caps, {0})
        [] re[k].t = "rep" ->
             TryRep(re, s, k, pos, caps,
                    {n \in re[k].min..Run(s, pos, re[k].c, re[k].max) :
                        CanStart(re, s, k + 1, pos + n)})

\* Item k repeated some n of counts times, then the rest.
TryRep(re, s, k, pos, caps, counts) ==
    IF counts = {} THEN NoMatch
    ELSE TryCount(re, s, k, pos, caps, counts,
                  IF re[k].lazy THEN Least(counts) ELSE Greatest(counts))

TryCount(re, s, k, pos, caps, counts, n) ==
    OrElse(MatchFrom(re, s, k + 1, pos + n, caps), re, s, k, pos, caps, counts \ {n})

OrElse(m, re, s, k, pos, caps, counts) ==
    IF m.ok THEN m ELSE TryRep(re, s, k, pos, caps, counts)

\* re.search from position i on: the leftmost match.
RECURSIVE Search(_, _, _), SearchAt(_, _, _, _), SearchOn(_, _, _, _)
Search(re, s, i) ==
    SearchAt(re, s, i, {p \in i..(Len(s) + 1) : CanStart(re, s, 1, p)})

SearchAt(re, s, i, starts) ==
    IF starts = {} THEN NoMatch
    ELSE SearchOn(re, s, Least(starts),
                  MatchFrom(re, s, 1, Least(starts), [g \in Groups(re) |-> <<0, 0>>]))

SearchOn(re, s, i, m) ==
    IF m.ok THEN [m EXCEPT !.start = i] ELSE Search(re, s, i + 1)

\* re.finditer: the non-overlapping matches, left to right.
RECURSIVE FindIter(_, _, _), ThenIter(_, _, _)
FindIter(re, s, i) == ThenIter(re, s, Search(re, s, i))

ThenIter(re, s, m) ==
    IF ~m.ok THEN <<>>
    ELSE <<m>> \o FindIter(re, s, IF m.end = m.start THEN m.end + 1 ELSE m.end)

\* m.group(g): the text of group g ('' for a group that took no part).
Group(s, m, g) == Slice(s, m.caps[g][1], m.caps[g][2] - 1)

Returned(c, cl, lg) == [content |-> c, classes |-> cl, raised |-> "none", log |-> lg]

Raised(e, lg) == [content |-> <<>>, classes |-> <<>>, raised |-> e, log |-> lg]

(***************************************************************************)
(* Paths (os.path on POSIX).                                               *)
(***************************************************************************)
RECURSIVE LastSlash(_, _)
LastSlash(p, i) == IF i = 0 THEN 0 ELSE IF p[i] = "/" THEN i ELSE LastSlash(p, i - 1)

RECURSIVE RStripSlash(_)
RStripSlash(p) ==
    IF p # <<>> /\ p[Len(p)] = "/" THEN RStripSlash(Slice(p, 1, Len(p) - 1)) ELSE p

\* os.path.split(p)[0], which is os.path.dirname(p)
Dirname(p) ==
    LET head == Slice(p, 1, LastSlash(p, Len(p))) IN
    IF head # <<>> /\ \E i \in 1..Len(head) : head[i] # "/" THEN RStripSlash(head)
    ELSE head

PathIsAbs(p) == StartsWith(p, <<"/">>)

\* os.path.join(a, b)
PathJoin(a, b) ==
    IF PathIsAbs(b) THEN b
    ELSE IF a = <<>> \/ a[Len(a)] = "/" THEN a \o b
    ELSE a \o <<"/">> \o b

(***************************************************************************)
(* CodeHighlightingMacro                                                   *)
(***************************************************************************)
\* r'(<pre.+?>(<code>)?\s?!(\w+?)\n(.*?)(</code>)?</pre>)'
\* with re.UNICODE | re.MULTILINE | re.DOTALL
code_blocks_re ==
    << Open(1), Lit(<<"<","p","r","e">>), RepLazy("any", 1), Lit(<<">">>), OptGroup(<<"<","c","o","d","e",">">>, 2),
       Rep("space", 0, 1), Lit(<<"!">>), Open(3), RepLazy("word", 1), Close(3),
       Lit(<<"\n">>), Open(4), RepLazy("any", 0), Close(4), OptGroup(<<"<","/","c","o","d","e",">">>, 5),
       Lit(<<"<","/","p","r","e",">">>), Close(1) >>

\* '&(\w+?);'
html_entity_re == << Lit(<<"&">>), Open(1), RepLazy("word", 1), Close(1), Lit(<<";">>) >>

\* htmlentitydefs.entitydefs, the entries the model's texts can name: the
\* table of the HTML 4 entities, which holds no 'apos'.
entitydefs ==
    [n \in {<<"l","t">>, <<"g","t">>, <<"a","m","p">>, <<"q","u","o","t">>} |->
        CASE n = <<"l","t">> -> <<"<">> [] n = <<"g","t">> -> <<">">> [] n = <<"a","m","p">> -> <<"&">> [] OTHER -> <<"\"">>]

\* html_entity_re.sub(f, string): each match becomes defs[m.group(1)]; a name
\* that is no key of defs raises KeyError.
RECURSIVE DescapeLoop(_, _, _)
DescapeLoop(s, ms, n) ==
    IF n = 0 THEN [ok |-> TRUE, text |-> <<>>, last |-> 1]
    ELSE LET st == DescapeLoop(s, ms, n - 1) IN
         IF ~st.ok \/ Group(s, ms[n], 1) \notin DOMAIN entitydefs
         THEN [ok |-> FALSE, text |-> <<>>, last |-> 1]
         ELSE [ok |-> TRUE,
               text |-> st.text \o Slice(s, st.last, ms[n].start - 1)
                          \o entitydefs[Group(s, ms[n], 1)],
               last |-> ms[n].end]

DescapeEnd(s, st) ==
    IF st.ok THEN [ok |-> TRUE, text |-> st.text \o Slice(s, st.last, Len(s))]
    ELSE [ok |-> FALSE, text |-> <<>>]

DescapeAll(s, ms) == DescapeEnd(s, DescapeLoop(s, ms, Len(ms)))

descape(s) == DescapeAll(s, FindIter(html_entity_re, s, 1))

\* pygments.lexers.get_lexer_by_name: the names it resolves.
KnownLexers == {<<"p","y">>}

\* pygments.highlight(code, lexer, HtmlFormatter(...)): the code, HTML-escaped,
\* inside the formatter's wrapper.
RECURSIVE HtmlEscape(_)
HtmlEscape(s) ==
    IF s = <<>> THEN <<>>
    ELSE (CASE Head(s) = "&" -> <<"&","a","m","p",";">>
            [] Head(s) = "<" -> <<"&","l","t",";">>
            [] Head(s) = ">" -> <<"&","g","t",";">>
            [] OTHER -> <<Head(s)>>) \o HtmlEscape(Tail(s))

highlight(code, lang) ==
    <<"<","d","i","v"," ","c","l","a","s","s","=","\"","h","i","g","h","l","i","g","h","t","\"",">","<","p","r","e",">">> \o HtmlEscape(code) \o <<"<","/","p","r","e",">","<","/","d","i","v",">","\n">>

UnknownLexer(lang) == <<"warning", "Unknown pygment lexer, skipping", lang>>

\* The for loop over code_blocks, from block n on, with the content so far;
\* CodeBlock is its body for one block.
RECURSIVE CodeLoop(_, _, _, _), CodeBlock(_, _, _, _, _, _, _)
CodeLoop(orig, ms, n, c) ==
    IF n > Len(ms) THEN Returned(c, <<<<"h","a","s","_","c","o","d","e">>>>, <<>>)
    ELSE CodeBlock(orig, ms, n, c, Group(orig, ms[n], 1), Group(orig, ms[n], 3),
                   descape(Group(orig, ms[n], 4)))

\* CodeBlock returning has_code when the lexer is unknown
CodeBlockHasCode(orig, ms, n, c, block, lang, code) ==
    IF lang \notin KnownLexers THEN Returned(c, <<<<"h","a","s","_","c","o","d","e">>>>, <<UnknownLexer(lang)>>)
    ELSE IF ~code.ok THEN Raised("KeyError", <<>>)
    ELSE CodeLoop(orig, ms, n + 1, Replace1(c, block, highlight(code.text, lang)))

CodeBlock(orig, ms, n, c, block, lang, code) ==
    IF lang \notin KnownLexers THEN Returned(c, <<>>, <<UnknownLexer(lang)>>)
    ELSE IF ~code.ok THEN Raised("KeyError", <<>>)
    ELSE CodeLoop(orig, ms, n + 1, Replace1(c, block, highlight(code.text, lang)))

CodeBlocks(c, code_blocks) ==
    IF code_blocks = <<>> THEN Returned(c, <<>>, <<>>)
    ELSE CodeLoop(c, code_blocks, 1, c)

CodeHighlightingProcess(c, src) == CodeBlocks(c, FindIter(code_blocks_re, c, 1))

(***************************************************************************)
(* EmbedImagesMacro                                                        *)
(***************************************************************************)
\* r'<img\s.*?src="(.+?)"\s?.*?/?>' with re.DOTALL | re.UNICODE
embed_img_re ==
    << Lit(<<"<","i","m","g">>), Rep("space", 1, 1), RepLazy("any", 0), Lit(<<"s","r","c","=","\"">>), Open(1),
       RepLazy("any", 1), Close(1), Lit(<<"\"">>), Rep("space", 0, 1), RepLazy("any", 0),
       Rep("/", 0, 1), Lit(<<">">>) >>

\* What the filesystem holds at a path: "missing" (os.path.exists is false),
\* "nomime" (mimetypes.guess_type gives no type), "unreadable" (open or read
\* raises IOError), "unencodable" (b64encode raises), "ok".
FileStates == {"missing", "nomime", "unreadable", "unencodable", "ok"}

FileState(files, path) == IF path \in DOMAIN files THEN files[path] ELSE "missing"

\* u"data:%s;base64,%s" % (mime_type, encoded_image)
EncodedUrl(path) == <<"d","a","t","a",":","i","m","a","g","e","/","p","n","g",";","b","a","s","e","6","4",",">> \o <<"QQ==">>

\* EmbedSkip testing for 'data://'
EmbedSkipTypo(image_url) == image_url = <<>> \/ StartsWith(image_url, <<"d","a","t","a",":","/","/">>)

EmbedSkip(image_url) == image_url = <<>> \/ StartsWith(image_url, <<"d","a","t","a",":">>)

\* The for loop over images, from image n on, with the content and log so far.
RECURSIVE EmbedLoop(_, _, _, _, _, _)
EmbedLoop(images, n, c, src, files, lg) ==
    IF n > Len(images) THEN Returned(c, <<>>, lg)
    ELSE LET image_url == images[n]
             real      == IF PathIsAbs(image_url) THEN image_url
                          ELSE PathJoin(Dirname(src), image_url)
             st        == FileState(files, real)
         IN IF EmbedSkip(image_url) THEN EmbedLoop(images, n + 1, c, src, files, lg)
            ELSE IF StartsWith(image_url, <<"f","i","l","e",":","/","/">>)
            THEN EmbedLoop(images, n + 1, c, src, files,
                           Append(lg, <<"warning", "file:// image urls are not supported", image_url>>))
            ELSE IF StartsWith(image_url, <<"h","t","t","p",":","/","/">>) \/ StartsWith(image_url, <<"h","t","t","p","s",":","/","/">>)
            THEN EmbedLoop(images, n + 1, c, src, files, lg)
            ELSE IF ~PathIsAbs(image_url) /\ src = None
            THEN Raised("AttributeError", lg)     \* os.path.dirname(None)
            ELSE IF st = "missing"
            THEN EmbedLoop(images, n + 1, c, src, files,
                           Append(lg, <<"warning", "image file not found", real>>))
            ELSE IF st = "nomime"
            THEN EmbedLoop(images, n + 1, c, src, files,
                           Append(lg, <<"warning", "unknown image mime-type", real>>))
            ELSE IF st = "unreadable"
            THEN EmbedLoop(images, n + 1, c, src, files,
                           Append(lg, <<"warning", "unable to read image", real>>))
            ELSE IF st = "unencodable"
            THEN EmbedLoop(images, n + 1, c, src, files,
                           Append(lg, <<"warning", "unable to base64-encode image", real>>))
            ELSE EmbedLoop(images, n + 1, Replace1(c, image_url, EncodedUrl(real)),
                           src, files, Append(lg, <<"notice", "Embedded image", real>>))

EmbedImages1(c, src, files, ms) ==
    IF ms = <<>> THEN Returned(c, <<>>, <<>>)
    ELSE EmbedLoop([i \in 1..Len(ms) |-> Group(c, ms[i], 1)], 1, c, src, files, <<>>)

EmbedImagesProcess(c, src, emb, files) ==
    IF ~emb THEN Returned(c, <<>>, <<>>)
    ELSE EmbedImages1(c, src, files, FindIter(embed_img_re, c, 1))

(***************************************************************************)
(* FixImagePathsMacro                                                      *)
(***************************************************************************)
\* r'<img.*?src="(?!http://)(.*?)".*/?>', compiled without flags: the call
\* re.sub(sub_regex, fn, content, re.UNICODE) passes re.UNICODE as count.
fix_sub_regex ==
    << Lit(<<"<","i","m","g">>), RepLazy("dot", 0), Lit(<<"s","r","c","=","\"">>), NotAhead(<<"h","t","t","p",":","/","/">>), Open(1),
       RepLazy("dot", 0), Close(1), Lit(<<"\"">>), Rep("dot", 0, Unbounded),
       Rep("/", 0, 1), Lit(<<">">>) >>

\* re.UNICODE, the fourth positional argument of re.sub: its count.
SubCount == 32

\* utils.get_abs_path_url(source): the source's absolute location, as a URL.
WorkDir == <<"f","i","l","e",":","/","/","/","w","/">>

get_abs_path_url(src) == IF PathIsAbs(src) THEN <<"f","i","l","e",":","/","/">> \o src ELSE WorkDir \o src

\* fn: r'<img src="%s" />' % os.path.join(base_url, p.group(1))
FixFn(base_url, ref) == <<"<","i","m","g"," ","s","r","c","=","\"">> \o PathJoin(base_url, ref) \o <<"\""," ","/",">">>

\* re.sub over matches ms[1..n]: the text built so far and where it resumes.
RECURSIVE SubLoop(_, _, _, _)
SubLoop(c, ms, n, base_url) ==
    IF n = 0 THEN [text |-> <<>>, last |-> 1]
    ELSE LET st == SubLoop(c, ms, n - 1, base_url) IN
         [text |-> st.text \o Slice(c, st.last, ms[n].start - 1)
                     \o FixFn(base_url, Group(c, ms[n], 1)),
          last |-> ms[n].end]

SubEnd(c, st) == st.text \o Slice(c, st.last, Len(c))

\* re.sub(pattern, fn, c, count)
Sub(c, all, count, base_url) == SubEnd(c, SubLoop(c, all, Min(Len(all), count), base_url))

FixImagePathsProcess(c, src, emb) ==
    IF emb THEN Returned(c, <<>>, <<>>)
    ELSE Returned(Sub(c, FindIter(fix_sub_regex, c, 1), SubCount,
                      Dirname(get_abs_path_url(src))),
                  <<>>, <<>>)

(***************************************************************************)
(* FxMacro                                                                 *)
(***************************************************************************)
\* fx_re with a greedy (.*) for its (.*?)
fx_re_greedy ==
    << Open(1), Lit(<<"<","p",">",".","f","x",":">>), Rep("space", 0, 1), Open(2), Rep("any", 0, Unbounded),
       Close(2), Lit(<<"<","/","p",">">>), Rep("\n", 0, 1), Close(1) >>

\* r'(<p>\.fx:\s?(.*?)</p>\n?)' with re.DOTALL | re.UNICODE
fx_re ==
    << Open(1), Lit(<<"<","p",">",".","f","x",":">>), Rep("space", 0, 1), Open(2), RepLazy("any", 0),
       Close(2), Lit(<<"<","/","p",">">>), Rep("\n", 0, 1), Close(1) >>

FxMatched(c, fx_match) ==
    IF fx_match.ok
    THEN Returned(Replace1(c, Group(c, fx_match, 1), <<>>),
                  Split(Group(c, fx_match, 2), " "), <<>>)
    ELSE Returned(c, <<>>, <<>>)

FxProcess(c, src) == FxMatched(c, Search(fx_re, c, 1))

(***************************************************************************)
(* NotesMacro                                                              *)
(***************************************************************************)
\* notes_re without re.DOTALL
notes_re_no_dotall ==
    << Lit(<<"<","p",">",".","n","o","t","e","s",":">>), Rep("space", 0, 1), Open(1), RepLazy("dot", 0),
       Close(1), Lit(<<"<","/","p",">">>) >>

\* r'<p>\.notes:\s?(.*?)</p>' with re.DOTALL
notes_re ==
    << Lit(<<"<","p",">",".","n","o","t","e","s",":">>), Rep("space", 0, 1), Open(1), RepLazy("any", 0),
       Close(1), Lit(<<"<","/","p",">">>) >>

\* The loop over finditer: new_content and last_index after matches ms[1..n].
RECURSIVE NotesLoop(_, _, _)
NotesLoop(c, ms, n) ==
    IF n = 0 THEN [new_content |-> <<>>, last_index |-> 1]
    ELSE LET st == NotesLoop(c, ms, n - 1) IN
         [new_content |-> st.new_content
                            \o Slice(c, st.last_index, ms[n].start - 1)
                            \o <<"<","p"," ","c","l","a","s","s","=","\"","n","o","t","e","s","\"",">">> \o Group(c, ms[n], 1) \o <<"<","/","p",">">>,
          last_index  |-> ms[n].end]

NotesEnd(c, st) == st.new_content \o Slice(c, st.last_index, Len(c))

NotesReturn(c, new_content) ==
    Returned(new_content, IF c # new_content THEN <<<<"h","a","s","_","n","o","t","e","s">>>> ELSE <<>>, <<>>)

NotesMatched(c, ms) == NotesReturn(c, NotesEnd(c, NotesLoop(c, ms, Len(ms))))

NotesProcess(c, src) == NotesMatched(c, FindIter(notes_re, c, 1))

(***************************************************************************)
(* The driver: a slide's content is fed to a macro, whose returned content *)
(* is fed to the next one.                                                 *)
(***************************************************************************)
RECURSIVE Texts(_, _)
Texts(pieces, n) ==
    IF n = 0 THEN {<<>>}
    ELSE LET shorter == Texts(pieces, n - 1) IN
         shorter \cup {t \o p : t \in shorter, p \in pieces}

Source == <<"d","/","s",".","m","d">>

NoFiles == [p \in {} |-> "missing"]

\* The driver calls a macro while no exception has left a process: an
\* exception ends the generation of the deck.
CanCall ==
    /\ Len(calls) < MaxPasses
    /\ \A i \in 1..Len(calls) : calls[i].raised = "none"

\* One call of a macro's process; r is what the call does.
Called(unit, r) ==
    /\ calls' = Append(calls, [unit |-> unit, input |-> content, content |-> r.content,
                               classes |-> r.classes, raised |-> r.raised, log |-> r.log])
    /\ content' = IF r.raised = "none" THEN r.content ELSE content
    /\ UNCHANGED <<source, embed, fs>>

CodeHighlighting ==
    /\ CanCall
    /\ Called("code", CodeHighlightingProcess(content, source))

EmbedImages ==
    /\ CanCall
    /\ Called("embed", EmbedImagesProcess(content, source, embed, fs))

FixImagePaths ==
    /\ CanCall
    /\ Called("fix", FixImagePathsProcess(content, source, embed))

Fx ==
    /\ CanCall
    /\ Called("fx", FxProcess(content, source))

Notes ==
    /\ CanCall
    /\ Called("notes", NotesProcess(content, source))

(***************************************************************************)
(* Slides with fenced code blocks, fed to CodeHighlighting.                *)
(***************************************************************************)
FencedBlock(lang, body) == <<"<","p","r","e",">","<","c","o","d","e",">","!">> \o lang \o <<"\n">> \o body \o <<"<","/","c","o","d","e",">","<","/","p","r","e",">">>

CodePieces ==
    {FencedBlock(lang, body) : lang \in {<<"p","y">>, <<"z","z">>}, body \in {<<"x">>, <<"&","l","t",";">>, <<"&","a","p","o","s",";">>}}
        \cup {<<"<","p","r","e",">","<","c","o","d","e",">","!","p","y","\n">>, <<"x","&","g","t",";">>, <<"<","/","c","o","d","e",">","<","/","p","r","e",">">>}

InitCode ==
    /\ content \in Texts(CodePieces, MaxBlocks)
    /\ source \in {None, Source}
    /\ embed = FALSE
    /\ fs = NoFiles
    /\ calls = <<>>

NextCode == CodeHighlighting

SpecCode == InitCode /\ [][NextCode]_vars

(***************************************************************************)
(* Slides with images, fed to EmbedImages.                                 *)
(***************************************************************************)
ImgTag(url) == <<"<","i","m","g"," ","s","r","c","=","\"">> \o url \o <<"\""," ","/",">">>

EmbedPieces ==
    {ImgTag(<<"a",".","p","n","g">>), ImgTag(<<"/","a",".","p","n","g">>), ImgTag(<<"d","a","t","a",":","a",".","p","n","g">>), ImgTag(<<"h","t","t","p",":","/","/","h","/","a",".","p","n","g">>),
     ImgTag(<<"f","i","l","e",":","/","/","a",".","p","n","g">>), <<"a",".","p","n","g"," ">>}

ImagePaths == {<<"d","/","a",".","p","n","g">>, <<"d","/","d","a","t","a",":","a",".","p","n","g">>}

\* The filesystems of the model: every file is either fine or fails in the
\* one way the filesystem has of failing.
FileSystems ==
    {f \in [ImagePaths -> FileStates] :
        Cardinality({f[p] : p \in ImagePaths} \ {"ok"}) <= 1}

\* Without a source no relative path is resolved, and no file is looked up.
InitEmbed ==
    /\ content \in Texts(EmbedPieces, MaxImages)
    /\ \/ source = Source /\ fs \in FileSystems
       \/ source = None /\ fs = NoFiles
    /\ embed = TRUE
    /\ calls = <<>>

NextEmbed == EmbedImages

SpecEmbed == InitEmbed /\ [][NextEmbed]_vars

(***************************************************************************)
(* Slides with images, fed to FixImagePaths.                               *)
(***************************************************************************)
FixPieces ==
    {ImgTag(<<"a",".","p","n","g">>), ImgTag(<<"b",".","p","n","g">>), ImgTag(<<"h","t","t","p",":","/","/","h","/","c",".","p","n","g">>), <<"<","i","m","g"," ","s","r","c","=","\"","a",".","p","n","g","\"",">">>,
     <<"x">>, <<"\n">>}

InitFix ==
    /\ content \in Texts(FixPieces, MaxTags)
    /\ source = Source
    /\ embed \in BOOLEAN
    /\ fs = NoFiles
    /\ calls = <<>>

NextFix == FixImagePaths

SpecFix == InitFix /\ [][NextFix]_vars

(***************************************************************************)
(* Slides with directive paragraphs, fed to Fx and Notes.                  *)
(***************************************************************************)
DirectivePieces == {<<"<","p",">",".","f","x",":">>, <<"<","p",">",".","n","o","t","e","s",":">>, <<" ","a">>, <<" ">>, <<"<","/","p",">">>, <<"\n">>}

InitDirectives ==
    /\ content \in Texts(DirectivePieces, MaxPieces)
    /\ source = Source
    /\ embed = FALSE
    /\ fs = NoFiles
    /\ calls = <<>>

NextDirectives == Fx \/ Notes

SpecDirectives == InitDirectives /\ [][NextDirectives]_vars

(***************************************************************************)
(* Properties.                                                             *)
(***************************************************************************)
Count(s, t) == Cardinality({i \in 1..Len(s) : StartsAt(s, i, t)})

\* The calls made last by the given unit (every call is the last one of
\* some state).
CallsOf(unit) == {i \in {Len(calls)} : i >= 1 /\ calls[i].unit = unit}

IsSpace(c) == c \in {" ", "\n", "\t"}

IsWord(c) == c \in Letters \cup Digits \cup {"_"}

\* The fenced code blocks findall finds in c: their languages and bodies.
BlocksOf(c) == FindIter(code_blocks_re, c, 1)

LangOf(c, m) == Group(c, m, 3)

BodyOf(c, m) == Group(c, m, 4)

\* Every '&name;' token of the body names an entry of the entity table.
EntitiesKnown(body) ==
    \A i \in 1..Len(body) : \A j \in (i + 2)..Len(body) :
        (/\ body[i] = "&"
         /\ body[j] = ";"
         /\ \A k \in (i + 1)..(j - 1) : IsWord(body[k]))
        => Slice(body, i + 1, j - 1) \in DOMAIN entitydefs

\* C1: process of every unit returns a (content, classes) pair and lets no
\* error cross its boundary, whatever the content and the source reference:
\* here for CodeHighlighting, whose blocks may hold any '&name;' token.
C1_NoErrorCrossesProcess ==
    \A i \in CallsOf("code") : calls[i].raised = "none"

\* C2: when at least one fenced block of the content declares a language the
\* highlighter cannot resolve, CodeHighlighting.process returns content equal
\* to its input and logs a warning.
C2_UnknownLanguageReturnsInput ==
    \A i \in CallsOf("code") :
        LET in == calls[i].input
            bs == BlocksOf(in)
        IN (/\ calls[i].raised = "none"
            /\ \E n \in 1..Len(bs) : LangOf(in, bs[n]) \notin KnownLexers)
           => /\ calls[i].content = in
              /\ \E n \in 1..Len(calls[i].log) : calls[i].log[n][1] = "warning"

ImgMatches(c) == FindIter(embed_img_re, c, 1)

ImagesOf(c) == {Group(c, ImgMatches(c)[n], 1) : n \in 1..Len(ImgMatches(c))}

\* An image the loop tries to resolve, and fails to.
FailedImage(url) ==
    /\ ~EmbedSkip(url)
    /\ ~StartsWith(url, <<"f","i","l","e",":","/","/">>)
    /\ ~StartsWith(url, <<"h","t","t","p",":","/","/">>)
    /\ ~StartsWith(url, <<"h","t","t","p","s",":","/","/">>)
    /\ FileState(fs, IF PathIsAbs(url) THEN url ELSE PathJoin(Dirname(source), url)) # "ok"

SrcAttr(url) == <<"s","r","c","=","\"">> \o url \o <<"\"">>

\* C4: with embedding enabled, an image whose resolution fails is skipped
\* with its own reference left untouched in the returned content, whatever
\* happens to the other images of the call.
C4_FailedImageUntouched ==
    \A i \in CallsOf("embed") :
        (embed /\ source # None /\ calls[i].raised = "none") =>
            \A url \in ImagesOf(calls[i].input) :
                FailedImage(url) =>
                    Count(calls[i].content, SrcAttr(url)) = Count(calls[i].input, SrcAttr(url))

HttpTagStart == <<"<","i","m","g"," ","s","r","c","=","\"","h","t","t","p",":","/","/">>

\* C5: with embedding disabled, every image tag whose src begins with
\* 'http://' appears in the content FixImagePaths.process returns exactly as
\* in its input.
C5_HttpTagsUntouched ==
    \A i \in CallsOf("fix") :
        ~embed =>
            /\ Count(calls[i].content, HttpTagStart) = Count(calls[i].input, HttpTagStart)
            /\ Count(calls[i].content, ImgTag(<<"h","t","t","p",":","/","/","h","/","c",".","p","n","g">>))
                   = Count(calls[i].input, ImgTag(<<"h","t","t","p",":","/","/","h","/","c",".","p","n","g">>))

\* C6: with embedding disabled, every image reference that is no absolute
\* http URL appears in the returned content as its own '<img src="BASE/ref" />'
\* tag: the number of image tags is preserved and none is left unrewritten.
C6_EveryReferenceRewritten ==
    \A i \in CallsOf("fix") :
        ~embed =>
            /\ Count(calls[i].content, <<"<","i","m","g">>) = Count(calls[i].input, <<"<","i","m","g">>)
            /\ \A ref \in {<<"a",".","p","n","g">>, <<"b",".","p","n","g">>} :
                   Count(calls[i].content, FixFn(Dirname(get_abs_path_url(source)), ref))
                       >= Count(calls[i].input, ImgTag(ref))

\* C7: Fx and Notes are idempotent: a second pass of the same unit over the
\* content its first pass returned changes nothing and returns no class.
C7_SecondPassIsNoOp ==
    \A i \in CallsOf("fx") \cup CallsOf("notes") :
        (i >= 2 /\ calls[i].unit = calls[i - 1].unit) =>
            /\ calls[i].content = calls[i].input
            /\ calls[i].classes = <<>>

\* The first paragraph '<p>.notes: ...</p>' of c from position from on: where
\* it opens, where its text begins and where its '</p>' stands.
NotesOpens(c, from) ==
    {i \in from..Len(c) : /\ StartsAt(c, i, <<"<","p",">",".","n","o","t","e","s",":">>)
                          /\ \E j \in (i + 10)..Len(c) : StartsAt(c, j, <<"<","/","p",">">>)}

TextStart(c, after) == IF IsSpace(c[after]) THEN after + 1 ELSE after

CloseFrom(c, b) == Least({j \in b..Len(c) : StartsAt(c, j, <<"<","/","p",">">>)})

\* c from position from on, each notes paragraph rewritten in place.
RECURSIVE NotesRewritten(_, _)
NotesRewritten(c, from) ==
    IF NotesOpens(c, from) = {} THEN Slice(c, from, Len(c))
    ELSE LET i == Least(NotesOpens(c, from))
             b == TextStart(c, i + 10)
             j == CloseFrom(c, b)
         IN Slice(c, from, i - 1) \o <<"<","p"," ","c","l","a","s","s","=","\"","n","o","t","e","s","\"",">">> \o Slice(c, b, j - 1) \o <<"<","/","p",">">>
               \o NotesRewritten(c, j + 4)

\* C8: Notes.process returns ['has_notes'] if and only if at least one
\* '<p>.notes: ...</p>' paragraph was matched; every matched paragraph is
\* replaced in place by '<p class="notes">text</p>', the text between and
\* around the matches is kept, and with no match the content is returned
\* as it was, with an empty class sequence.
C8_NotesReplacedInPlace ==
    \A i \in CallsOf("notes") :
        LET in == calls[i].input IN
        /\ calls[i].raised = "none"
        /\ calls[i].content = NotesRewritten(in, 1)
        /\ calls[i].classes = <<<<"h","a","s","_","n","o","t","e","s">>>> <=> NotesOpens(in, 1) # {}
        /\ NotesOpens(in, 1) = {} => calls[i].content = in /\ calls[i].classes = <<>>

\* A call that replaced a paragraph whose text spans a newline.
C8_Witness ==
    \E i \in CallsOf("notes") :
        /\ calls[i].input = <<"<","p",">",".","n","o","t","e","s",":"," ","a","\n","<","/","p",">">>
        /\ calls[i].content = <<"<","p"," ","c","l","a","s","s","=","\"","n","o","t","e","s","\"",">","a","\n","<","/","p",">">>
        /\ calls[i].classes = <<<<"h","a","s","_","n","o","t","e","s">>>>

\* Every image reference of c is a data URI, and c holds an image.
AllSrcData(c) ==
    /\ Count(c, <<"<","i","m","g"," ">>) >= 1
    /\ \A i \in 1..Len(c) : StartsAt(c, i, <<"s","r","c","=","\"">>) => StartsAt(c, i + 5, <<"d","a","t","a",":">>)

\* C9: with embedding enabled, EmbedImages.process returns content whose
\* image references are all data URIs unchanged, with an empty class sequence.
C9_DataUrisUnchanged ==
    \A i \in CallsOf("embed") :
        (embed /\ AllSrcData(calls[i].input)) =>
            /\ calls[i].raised = "none"
            /\ calls[i].content = calls[i].input
            /\ calls[i].classes = <<>>

\* A second pass over content that the first pass embedded an image into.
C9_Witness ==
    /\ embed
    /\ Len(calls) = 2
    /\ calls[1].unit = "embed"
    /\ calls[1].content # calls[1].input
    /\ calls[2].unit = "embed"
    /\ AllSrcData(calls[2].input)
    /\ Count(calls[2].input, <<"d","a","t","a",":","i","m","a","g","e","/","p","n","g",";","b","a","s","e","6","4",",">>) >= 1

FxOpens(c) ==
    {i \in 1..Len(c) : /\ StartsAt(c, i, <<"<","p",">",".","f","x",":">>)
                       /\ \E j \in (i + 7)..Len(c) : StartsAt(c, j, <<"<","/","p",">">>)}

\* ' '.join(classes)
RECURSIVE Join(_)
Join(ss) ==
    IF ss = <<>> THEN <<>>
    ELSE IF Len(ss) = 1 THEN ss[1]
    ELSE ss[1] \o <<" ">> \o Join(Tail(ss))

\* C10: Fx.process recognises only the first '<p>.fx: ...</p>' paragraph: the
\* classes are its token text split on single spaces, exactly that paragraph
\* with at most one trailing newline is removed where it was matched, every
\* other character is kept, and with no such paragraph the content is
\* returned unchanged with an empty class sequence.
C10_FxFirstParagraphOnly ==
    \A n \in CallsOf("fx") :
        LET in == calls[n].input IN
        /\ calls[n].raised = "none"
        /\ IF FxOpens(in) = {}
           THEN calls[n].content = in /\ calls[n].classes = <<>>
           ELSE LET i == Least(FxOpens(in))
                    b == TextStart(in, i + 7)
                    j == CloseFrom(in, b)
                    e == IF j + 4 <= Len(in) /\ in[j + 4] = "\n" THEN j + 5 ELSE j + 4
                IN /\ calls[n].content = Slice(in, 1, i - 1) \o Slice(in, e, Len(in))
                   /\ Join(calls[n].classes) = Slice(in, b, j - 1)
                   /\ Len(calls[n].classes) = 1 + Count(Slice(in, b, j - 1), <<" ">>)
                   /\ \A k \in 1..Len(calls[n].classes) :
                          Count(calls[n].classes[k], <<" ">>) = 0

\* A call on '<p>.fx: a a</p>', which returns the classes a and a.
C10_Witness ==
    \E n \in CallsOf("fx") :
        /\ calls[n].classes = <<<<"a">>, <<"a">>>>
        /\ Count(calls[n].input, <<"<","p",">",".","f","x",":">>) = 1
        /\ Len(calls[n].content) < Len(calls[n].input)

=============================================================================
